---- MODULE Spec2Model ----
(***************************************************************************)
(* Session/context controller of src/app.py (a Streamlit chat front end).   *)
(*                                                                         *)
(* One script run of main() is modelled as a sequence of steps, so that    *)
(* the remote call (line 157) is a point of its own:                       *)
(*   idle --Submit--> build --BuildContext--> try --GenerateContent-->     *)
(*   awaiting --{ReturnText, RaiseResourceExhausted, RaiseAPIError,        *)
(*               RaiseException}--> record --Record--> idle                *)
(* st.session_state (session_id, chat_history, log_count, auto_record_csv) *)
(* survives from one run to the next; the other variables are locals of    *)
(* main() or observations of the collaborators (remote endpoint, sleep,    *)
(* CSV writer, uuid generator).                                            *)
(*                                                                         *)
(* A credential is assumed to be present (get_gemini_client returns a      *)
(* client); without it main() returns at line 127 before any of this.      *)
(***************************************************************************)
EXTENDS Integers, Sequences, FiniteSets, TLC

\* ------------------------------------------------------------------ bounds
\* Submit is disabled once the transcript could exceed this many turns.
MaxHistory == 5
\* The reset button is pressed at most this many times.
MaxResets == 2
\* The window setting ranges over 0..MaxContextTurns round-trips (and the
\* source's own value).
MaxContextTurns == 2

\* --------------------------------------------------------------- constants
\* src/app.py:17
MAX_CONTEXT_TURNS == 6
\* src/app.py:19
MAX_RETRIES == 3

\* Names bound at module level by the import statements, src/app.py:1-6.
ImportedNames ==
  {"st", "pd", "time", "uuid", "genai", "ResourceExhaustedError", "APIError"}

\* The three texts the except clauses assign to response_text (lines 175, 180, 185).
RATE_LIMIT_MESSAGE == "service busy: press reset and start again"
API_ERROR_MESSAGE == "unexpected API communication error: try again later"
UNKNOWN_ERROR_MESSAGE == "unknown error while processing"

\* Values st.chat_input can hand to line 137: nothing typed, blanks only, text.
Prompts == {"", " ", "a"}
\* Values of response.text on a call that returns (line 164): the endpoint may
\* return an empty text.
Texts == {"", "ok"}
\* Fractional part of random.uniform(0, 1), in milliseconds.
Jitters == {0, 500, 999}

\* Python's None, as the empty option; a value v is <<v>>.
None == <<>>

VARIABLES
  max_context_turns,  \* the setting of line 17 in force for this process
  session_id,         \* st.session_state.session_id
  chat_history,       \* st.session_state.chat_history
  log_count,          \* st.session_state.log_count
  auto_record_csv,    \* st.session_state.auto_record_csv (sidebar checkbox)
  pc,                 \* position of the script run
  user_prompt,        \* local of main(), line 137
  context_for_api,    \* local of main(), line 147
  response_text,      \* local of main(), line 152
  attempt,            \* loop variable of line 153
  requests,           \* remote calls issued by this run: <<[attempt, contents]>>
  outcomes,           \* how each of them ended
  sleeps,             \* time.sleep calls of this run, in milliseconds
  csv_writes,         \* df.to_csv calls of this run: <<[file, rows, written]>>
  issued_ids,         \* every value uuid.uuid4() has returned
  pre_history,        \* chat_history when this run began
  ended,              \* how the last script run ended
  resets,             \* number of resets so far
  twin                \* the same session with the checkbox the other way round,
                      \* given the same submissions, resets and remote outcomes:
                      \* its chat_history, session_id, issued_ids,
                      \* context_for_api and requests

vars ==
  << max_context_turns, session_id, chat_history, log_count, auto_record_csv,
     pc, user_prompt, context_for_api, response_text, attempt, requests,
     outcomes, sleeps, csv_writes, issued_ids, pre_history, ended, resets,
     twin >>

session_state == << session_id, chat_history, log_count, auto_record_csv >>
run_locals == << user_prompt, context_for_api, response_text, attempt >>
observed == << requests, outcomes, sleeps, csv_writes >>

\* ----------------------------------------------------------------- helpers
Min(a, b) == IF a < b THEN a ELSE b
Max(a, b) == IF a > b THEN a ELSE b

RECURSIVE Pow2(_)
Pow2(n) == IF n = 0 THEN 1 ELSE 2 * Pow2(n - 1)

\* Truth value of a Python str (line 137).
TruthyStr(s) == s # ""
\* Truth value of an optional str (line 189): None and "" are both false.
Truthy(opt) == opt # None /\ TruthyStr(opt[1])

\* lst[start:] as Python evaluates it: a negative start counts from the end
\* and is clamped at 0, a non-negative one is clamped at len(lst).
PySliceFrom(lst, start) ==
  LET n == Len(lst)
      s == IF start < 0 THEN Max(n + start, 0) ELSE Min(start, n)
  IN  SubSeq(lst, s + 1, n)

\* line 140
UserMessagePart(prompt) == [role |-> "user", parts |-> << [text |-> prompt] >>]
\* Mutant of ModelMessagePart: the role of line 140 copied to line 191.
ModelMessagePartAsUser(text) == [role |-> "user", parts |-> << [text |-> text] >>]
\* line 191
ModelMessagePart(text) == [role |-> "model", parts |-> << [text |-> text] >>]

\* line 18
MAX_HISTORY_PARTS == max_context_turns * 2

\* Mutant of ContextForApi: the first parts instead of the last ([:K] for [-K:]).
ContextForApiHead(history) ==
  SubSeq(history, 1, Min(Len(history), MAX_HISTORY_PARTS))
\* line 147
ContextForApi(history) == PySliceFrom(history, -MAX_HISTORY_PARTS)

\* Mutant of AppendUser: the prompt is shown but not recorded.
AppendUserDropped(history, prompt) == history
\* line 141
AppendUser(history, prompt) == Append(history, UserMessagePart(prompt))

\* Mutant of AppendModel: the reply is stored after the window sent to the
\* endpoint instead of after the whole history.
AppendModelToWindow(history, text) ==
  Append(ContextForApi(history), ModelMessagePart(text))
\* line 192
AppendModel(history, text) == Append(history, ModelMessagePart(text))

\* lines 198-199
LogData(history) ==
  [i \in DOMAIN history |->
     [role |-> history[i].role, content |-> history[i].parts[1].text]]

\* str(uuid.uuid4()), lines 34 and 100: a value no earlier call has returned.
uuid4(issued) == Cardinality(issued) + 1

\* line 170: (2 ** attempt) + random.uniform(0, 1), in milliseconds.
WaitTime(a, jitter) == 1000 * Pow2(a) + jitter

\* ------------------------------------------------------------------- Init
\* lines 33-39, and the checkbox's value=True of line 84
Init ==
  /\ max_context_turns \in (0 .. MaxContextTurns) \cup {MAX_CONTEXT_TURNS}
  /\ session_id = uuid4({})
  /\ issued_ids = {uuid4({})}
  /\ chat_history = << >>
  /\ log_count = 0
  /\ auto_record_csv = TRUE
  /\ pc = "idle"
  /\ user_prompt = ""
  /\ context_for_api = << >>
  /\ response_text = None
  /\ attempt = 0
  /\ requests = << >>
  /\ outcomes = << >>
  /\ sleeps = << >>
  /\ csv_writes = << >>
  /\ pre_history = << >>
  /\ ended = "none"
  /\ resets = 0
  /\ twin = [chat_history |-> << >>, session_id |-> uuid4({}),
             issued_ids |-> {uuid4({})}, context_for_api |-> << >>,
             requests |-> << >>]

\* ---------------------------------------------------------------- actions
\* Mutant of Submit: a submission is taken up while a run is awaiting its
\* remote call.
SubmitWhileAwaiting(prompt) ==
  /\ pc \in {"idle", "awaiting"}
  /\ Len(chat_history) + 2 <= MaxHistory
  /\ user_prompt' = prompt
  /\ pre_history' = chat_history
  /\ requests' = << >>
  /\ outcomes' = << >>
  /\ sleeps' = << >>
  /\ csv_writes' = << >>
  /\ response_text' = None
  /\ attempt' = 0
  /\ context_for_api' = << >>
  /\ IF TruthyStr(prompt)
     THEN /\ chat_history' = AppendUser(chat_history, prompt)
          /\ pc' = "build"
          /\ ended' = "running"
     ELSE /\ chat_history' = chat_history
          /\ pc' = "idle"
          /\ ended' = "no_input"
  /\ twin' = [twin EXCEPT
                !.chat_history = IF TruthyStr(prompt) THEN AppendUser(@, prompt) ELSE @,
                !.context_for_api = << >>,
                !.requests = << >>]
  /\ UNCHANGED << max_context_turns, session_id, log_count, auto_record_csv,
                  issued_ids, resets >>

\* lines 137-143: a script run started by a chat submission.
Submit(prompt) ==
  /\ pc = "idle"
  /\ Len(chat_history) + 2 <= MaxHistory
  /\ user_prompt' = prompt
  /\ pre_history' = chat_history
  /\ requests' = << >>
  /\ outcomes' = << >>
  /\ sleeps' = << >>
  /\ csv_writes' = << >>
  /\ response_text' = None
  /\ attempt' = 0
  /\ context_for_api' = << >>
  /\ IF TruthyStr(prompt)
     THEN /\ chat_history' = AppendUser(chat_history, prompt)
          /\ pc' = "build"
          /\ ended' = "running"
     ELSE /\ chat_history' = chat_history
          /\ pc' = "idle"
          /\ ended' = "no_input"
  /\ twin' = [twin EXCEPT
                !.chat_history = IF TruthyStr(prompt) THEN AppendUser(@, prompt) ELSE @,
                !.context_for_api = << >>,
                !.requests = << >>]
  /\ UNCHANGED << max_context_turns, session_id, log_count, auto_record_csv,
                  issued_ids, resets >>

\* line 147
BuildContext ==
  /\ pc = "build"
  /\ context_for_api' = ContextForApi(chat_history)
  /\ twin' = [twin EXCEPT !.context_for_api = ContextForApi(twin.chat_history)]
  /\ pc' = "try"
  /\ UNCHANGED << max_context_turns, session_state, user_prompt, response_text,
                  attempt, observed, issued_ids, pre_history, ended, resets >>

\* Mutant of GenerateContent: contents is the whole history, not the window.
GenerateContentWholeHistory ==
  /\ pc = "try"
  /\ requests' = Append(requests, [attempt |-> attempt, contents |-> chat_history])
  /\ twin' = [twin EXCEPT
                !.requests = Append(@, [attempt |-> attempt,
                                        contents |-> twin.chat_history])]
  /\ pc' = "awaiting"
  /\ UNCHANGED << max_context_turns, session_state, run_locals, outcomes, sleeps,
                  csv_writes, issued_ids, pre_history, ended, resets >>

\* lines 153-163: one pass of the loop issues the remote call.
GenerateContent ==
  /\ pc = "try"
  /\ requests' = Append(requests, [attempt |-> attempt, contents |-> context_for_api])
  /\ twin' = [twin EXCEPT
                !.requests = Append(@, [attempt |-> attempt,
                                        contents |-> twin.context_for_api])]
  /\ pc' = "awaiting"
  /\ UNCHANGED << max_context_turns, session_state, run_locals, outcomes, sleeps,
                  csv_writes, issued_ids, pre_history, ended, resets >>

\* lines 164-165: the call returns.
ReturnText(text) ==
  /\ pc = "awaiting"
  /\ outcomes' = Append(outcomes, "Success")
  /\ response_text' = << text >>
  /\ pc' = "record"
  /\ UNCHANGED << max_context_turns, session_state, user_prompt, context_for_api,
                  attempt, requests, sleeps, csv_writes, issued_ids, pre_history,
                  ended, resets, twin >>

\* lines 167-176: the call raises ResourceExhaustedError. Evaluating line 170
\* looks up the name random, which no import binds: the NameError is raised
\* inside the except clause, so no other clause of the try catches it and the
\* script run ends there.
RaiseResourceExhausted ==
  /\ pc = "awaiting"
  /\ outcomes' = Append(outcomes, "RateLimited")
  /\ IF attempt < MAX_RETRIES - 1
     THEN IF "random" \in ImportedNames
          THEN /\ \E jitter \in Jitters :
                    sleeps' = Append(sleeps, WaitTime(attempt, jitter))
               /\ attempt' = attempt + 1
               /\ pc' = "try"
               /\ UNCHANGED << response_text, ended >>
          ELSE /\ pc' = "idle"
               /\ ended' = "NameError"
               /\ UNCHANGED << response_text, attempt, sleeps >>
     ELSE /\ response_text' = << RATE_LIMIT_MESSAGE >>
          /\ pc' = "record"
          /\ UNCHANGED << attempt, sleeps, ended >>
  /\ UNCHANGED << max_context_turns, session_state, user_prompt, context_for_api,
                  requests, csv_writes, issued_ids, pre_history, resets, twin >>

\* What an except clause that ends the loop leaves behind (lines 180-181, 185-186).
BreakWith(message, a) == [response_text |-> << message >>, pc |-> "record", attempt |-> a]

\* Mutant of OnAPIError: the clause without its break, so the loop goes on.
OnAPIErrorNoBreak(a) ==
  [response_text |-> << API_ERROR_MESSAGE >>,
   pc |-> IF a < MAX_RETRIES - 1 THEN "try" ELSE "record",
   attempt |-> IF a < MAX_RETRIES - 1 THEN a + 1 ELSE a]
\* lines 178-181
OnAPIError(a) == BreakWith(API_ERROR_MESSAGE, a)
\* lines 183-186
OnException(a) == BreakWith(UNKNOWN_ERROR_MESSAGE, a)

\* lines 178-181: the call raises APIError.
RaiseAPIError ==
  /\ pc = "awaiting"
  /\ outcomes' = Append(outcomes, "ApiFault")
  /\ response_text' = OnAPIError(attempt).response_text
  /\ pc' = OnAPIError(attempt).pc
  /\ attempt' = OnAPIError(attempt).attempt
  /\ UNCHANGED << max_context_turns, session_state, user_prompt, context_for_api,
                  requests, sleeps, csv_writes, issued_ids, pre_history, ended,
                  resets, twin >>

\* lines 183-186: the call raises any other exception.
RaiseException ==
  /\ pc = "awaiting"
  /\ outcomes' = Append(outcomes, "Unclassified")
  /\ response_text' = OnException(attempt).response_text
  /\ pc' = OnException(attempt).pc
  /\ attempt' = OnException(attempt).attempt
  /\ UNCHANGED << max_context_turns, session_state, user_prompt, context_for_api,
                  requests, sleeps, csv_writes, issued_ids, pre_history, ended,
                  resets, twin >>

\* Mutant of RecordedHistory: the append of line 192 moved under the
\* `if auto_record_csv` of line 196.
RecordedHistoryIfLogging(history, text, auto) ==
  IF Truthy(text) /\ auto THEN AppendModel(history, text[1]) ELSE history
\* lines 189-192: the history after the reply is recorded; the checkbox
\* (auto) is not read there.
RecordedHistory(history, text, auto) ==
  IF Truthy(text) THEN AppendModel(history, text[1]) ELSE history

\* lines 188-204: record the reply, write the CSV, rerun. to_csv (line 201) is
\* outside every try: when the write fails the run ends with that error.
Record ==
  /\ pc = "record"
  /\ pc' = "idle"
  /\ IF Truthy(response_text)
     THEN /\ chat_history' = RecordedHistory(chat_history, response_text, auto_record_csv)
          /\ log_count' = log_count + 1
          /\ IF auto_record_csv
             THEN \E written \in BOOLEAN :
                    /\ csv_writes' =
                         Append(csv_writes,
                                [file |-> session_id, rows |-> LogData(chat_history'),
                                 written |-> written])
                    /\ ended' = IF written THEN "rerun" ELSE "OSError"
             ELSE /\ csv_writes' = csv_writes
                  /\ ended' = "rerun"
     ELSE /\ ended' = "rerun"
          /\ UNCHANGED << chat_history, log_count, csv_writes >>
  /\ twin' = [twin EXCEPT
                !.chat_history = RecordedHistory(@, response_text, ~auto_record_csv)]
  /\ UNCHANGED << max_context_turns, session_id, auto_record_csv, run_locals,
                  requests, outcomes, sleeps, issued_ids, pre_history, resets >>

\* Mutant of Reset: line 100 left out, the session keeps its identifier.
ResetKeepsSessionId ==
  /\ pc = "idle"
  /\ resets < MaxResets
  /\ chat_history' = << >>
  /\ log_count' = 0
  /\ resets' = resets + 1
  /\ ended' = "reset"
  /\ twin' = [twin EXCEPT !.chat_history = << >>]
  /\ UNCHANGED << max_context_turns, session_id, issued_ids, auto_record_csv, pc,
                  run_locals, observed, pre_history >>

\* lines 97-101: the reset button.
Reset ==
  /\ pc = "idle"
  /\ resets < MaxResets
  /\ chat_history' = << >>
  /\ log_count' = 0
  /\ session_id' = uuid4(issued_ids)
  /\ issued_ids' = issued_ids \cup {uuid4(issued_ids)}
  /\ resets' = resets + 1
  /\ ended' = "reset"
  /\ twin' = [twin EXCEPT
                !.chat_history = << >>,
                !.session_id = uuid4(twin.issued_ids),
                !.issued_ids = @ \cup {uuid4(twin.issued_ids)}]
  /\ UNCHANGED << max_context_turns, auto_record_csv, pc, run_locals, observed,
                  pre_history >>

\* lines 82-87: the sidebar checkbox is toggled (a script run of its own, with
\* no chat submission).
ToggleAutoRecord ==
  /\ pc = "idle"
  /\ auto_record_csv' = ~auto_record_csv
  /\ ended' = "toggled"
  /\ UNCHANGED << max_context_turns, session_id, chat_history, log_count, pc,
                  run_locals, observed, issued_ids, pre_history, resets, twin >>

Next ==
  \/ \E prompt \in Prompts : Submit(prompt)
  \/ BuildContext
  \/ GenerateContent
  \/ \E text \in Texts : ReturnText(text)
  \/ RaiseResourceExhausted
  \/ RaiseAPIError
  \/ RaiseException
  \/ Record
  \/ Reset
  \/ ToggleAutoRecord

Spec == Init /\ [][Next]_vars

\* ------------------------------------------------------------- properties
IsPrefix(s, t) == Len(s) <= Len(t) /\ SubSeq(t, 1, Len(s)) = s

Last(s) == s[Len(s)]

\* A script run that took a chat submission has started and not been
\* followed by a reset.
InOrAfterRun == ended \in {"running", "rerun", "NameError", "OSError"}
\* Such a run is over.
RunOver == pc = "idle" /\ ended \in {"rerun", "NameError", "OSError"}

\* The turns a claim speaks of, written out.
UserTurn(text) == [role |-> "user", parts |-> << [text |-> text] >>]
AssistantTurn(text) == [role |-> "model", parts |-> << [text |-> text] >>]

\* C1: append-only transcript. In every step other than a reset the
\* transcript before the step is a prefix of the transcript after it, so
\* across handleUserTurn calls, failed or not, no turn is removed, reordered
\* or changed and the length never decreases.
C1_AppendOnly ==
  [][resets' = resets => IsPrefix(chat_history, chat_history')]_vars

\* C1 witness: with no reset so far, a run that failed (its remote call was
\* rate limited) has ended after an earlier run had recorded a reply.
C1_Witness ==
  /\ resets = 0
  /\ RunOver
  /\ ended = "NameError"
  /\ Len(pre_history) >= 2
  /\ IsPrefix(pre_history, chat_history)

\* C2: user-turn durability. From the moment a run has accepted its input,
\* hence at every remote call it issues and after it has ended with whatever
\* outcome, the turn right after the transcript the run started from is the
\* User turn carrying the submitted text.
C2_UserTurnDurable ==
  (InOrAfterRun /\ TruthyStr(user_prompt)) =>
     /\ Len(chat_history) > Len(pre_history)
     /\ IsPrefix(pre_history, chat_history)
     /\ chat_history[Len(pre_history) + 1] = UserTurn(user_prompt)

\* C2 witness: a run whose only remote call failed is over and the User turn
\* is the last turn of the transcript.
C2_Witness ==
  /\ RunOver
  /\ Len(requests) = 1
  /\ outcomes = << "RateLimited" >>
  /\ Last(chat_history) = UserTurn(user_prompt)

\* C3: window bound. For a positive window length K = MAX_HISTORY_PARTS, once
\* the window is built it has min(N, K) turns, they are the last min(N, K)
\* turns of the N-turn transcript in order, and the transcript is still the
\* one the run started from followed by the User turn.
C3_WindowBound ==
  (pc \in {"try", "awaiting", "record"} /\ MAX_HISTORY_PARTS > 0) =>
     LET N == Len(chat_history)
         M == Min(N, MAX_HISTORY_PARTS)
     IN  /\ Len(context_for_api) = M
         /\ \A i \in 1 .. M : context_for_api[i] = chat_history[N - M + i]
         /\ chat_history = Append(pre_history, UserTurn(user_prompt))

\* C3 witness: a window was built from a transcript longer than a positive K.
C3_Witness ==
  /\ pc = "try"
  /\ MAX_HISTORY_PARTS > 0
  /\ Len(chat_history) > MAX_HISTORY_PARTS
  /\ Len(context_for_api) = MAX_HISTORY_PARTS

\* The run is over and its last remote call returned a text.
EndedInSuccess ==
  /\ RunOver
  /\ outcomes # << >>
  /\ Last(outcomes) = "Success"

\* C4 as claimed: for every returned text, the run ends with the old
\* transcript followed by exactly the User turn and an Assistant turn with
\* that text.
C4_SuccessRecorded_Original ==
  EndedInSuccess =>
     chat_history =
        pre_history \o << UserTurn(user_prompt), AssistantTurn(response_text[1]) >>

\* C4 as amended: the same for every non-empty returned text; an empty text
\* adds no Assistant turn, the transcript ends with the User turn.
C4_SuccessRecorded ==
  EndedInSuccess =>
     IF response_text[1] # ""
     THEN chat_history =
            pre_history \o << UserTurn(user_prompt), AssistantTurn(response_text[1]) >>
     ELSE chat_history = pre_history \o << UserTurn(user_prompt) >>

\* C4 witness: a run ended after a non-empty text was returned and recorded.
C4_Witness ==
  /\ EndedInSuccess
  /\ response_text = << "ok" >>
  /\ Last(chat_history) = AssistantTurn("ok")
  /\ Len(chat_history) = Len(pre_history) + 2

\* The user-facing message of a failure kind.
UserMessage(kind) ==
  CASE kind = "RateLimited" -> RATE_LIMIT_MESSAGE
    [] kind = "ApiFault" -> API_ERROR_MESSAGE
    [] kind = "Unclassified" -> UNKNOWN_ERROR_MESSAGE

\* The run is over and its last remote call failed.
EndedInFailure ==
  /\ RunOver
  /\ outcomes # << >>
  /\ Last(outcomes) \in {"RateLimited", "ApiFault", "Unclassified"}

\* C5: every terminal failure is visible in history. A run whose retry loop
\* ended on a failed remote call has appended exactly one Assistant turn, the
\* message of that failure's kind, which is the transcript's final turn.
C5_FailureVisible ==
  EndedInFailure =>
     chat_history =
        pre_history \o
          << UserTurn(user_prompt), AssistantTurn(UserMessage(Last(outcomes))) >>

\* C6: exhausted retries. A run that is over and whose remote calls were all
\* rate limited made exactly MAX_RETRIES calls, slept exactly MAX_RETRIES - 1
\* times, and left the service-busy Assistant turn as the final turn.
C6_ExhaustedRetries ==
  (RunOver /\ outcomes # << >> /\ \A i \in DOMAIN outcomes : outcomes[i] = "RateLimited") =>
     /\ Len(requests) = MAX_RETRIES
     /\ Len(sleeps) = MAX_RETRIES - 1
     /\ Last(chat_history) = AssistantTurn(RATE_LIMIT_MESSAGE)

\* C7: no retry on a non-rate-limit failure. Once attempt i has failed with
\* ApiFault or Unclassified, it is the last remote call of the run, the loop
\* is left, and no sleep follows it (only the earlier attempts can have
\* slept); when it is the first attempt, exactly one remote call was made.
C7_NoRetryOnFault ==
  \A i \in DOMAIN outcomes :
     outcomes[i] \in {"ApiFault", "Unclassified"} =>
        /\ Len(requests) = i
        /\ Len(outcomes) = i
        /\ Len(sleeps) <= i - 1
        /\ pc \in {"record", "idle"}

\* C7 witness: a run is over whose first and only remote call failed with
\* ApiFault, with no sleep.
C7_Witness ==
  /\ RunOver
  /\ outcomes = << "ApiFault" >>
  /\ Len(requests) = 1
  /\ sleeps = << >>

\* Submissions that are empty or hold blanks only.
Blank == {"", " "}

\* C8: empty-input rejection. A run given an empty or whitespace-only string
\* leaves the transcript as it found it and issues no remote call.
C8_BlankRejected ==
  ((InOrAfterRun \/ ended = "no_input") /\ user_prompt \in Blank) =>
     /\ chat_history = pre_history
     /\ requests = << >>

\* C9: reset isolation. The session identifier is always one the generator
\* issued, and a reset leaves the transcript empty, takes an identifier that
\* was never issued before, and issues no remote call.
C9_ResetIsolation ==
  /\ [](session_id \in issued_ids)
  /\ [][resets' # resets =>
          /\ chat_history' = << >>
          /\ session_id' \notin issued_ids
          /\ requests' = requests
          /\ pc' = "idle"]_vars

\* C9 witness: a second reset has happened after turns had been recorded.
C9_Witness ==
  /\ ended = "reset"
  /\ resets = 2
  /\ pre_history # << >>
  /\ chat_history = << >>
  /\ Cardinality(issued_ids) = 3

\* C10: backoff durations. After a rate-limited attempt i that is not the
\* last allowed one, a sleep is taken whose length lies in [2^i, 2^i + 1)
\* seconds (attempts count from 0, outcomes from 1).
C10_BackoffDurations ==
  \A i \in DOMAIN outcomes :
     (outcomes[i] = "RateLimited" /\ i - 1 < MAX_RETRIES - 1) =>
        /\ i \in DOMAIN sleeps
        /\ sleeps[i] >= 1000 * Pow2(i - 1)
        /\ sleeps[i] < 1000 * Pow2(i - 1) + 1000

\* The session is between submission and the end of the run: the remote call
\* is pending, in flight, or its result is about to be recorded.
AwaitingCompletion == pc \in {"build", "try", "awaiting", "record"}

\* What the logging collaborator is to receive for a transcript: one
\* (role, content) row per turn, in order.
Snapshot(history) ==
  [i \in 1 .. Len(history) |->
     [role |-> history[i].role, content |-> history[i].parts[1].text]]

\* C11: logging after every turn. With the auto-log toggle on, a run that
\* took an accepted input and is over has notified the logging collaborator
\* exactly once, with the session identifier and a snapshot of the whole
\* transcript, whose last turn is the Assistant turn of this run; this for
\* runs that succeeded and for runs that ended in a failure alike.
C11_LoggedOncePerTurn ==
  (RunOver /\ auto_record_csv) =>
     /\ Len(csv_writes) = 1
     /\ csv_writes[1].file = session_id
     /\ csv_writes[1].rows = Snapshot(chat_history)
     /\ Len(chat_history) = Len(pre_history) + 2
     /\ Last(chat_history).role = "model"

\* C12: a logging failure is non-fatal. When the CSV write of a run has
\* failed, the run still ends the normal way (the failure is swallowed), and
\* the transcript is the old one followed by the User turn and the Assistant
\* turn of this run, nothing more and nothing less.
C12_LogFailureSwallowed ==
  (RunOver /\ \E i \in DOMAIN csv_writes : ~csv_writes[i].written) =>
     /\ ended = "rerun"
     /\ chat_history =
          pre_history \o << UserTurn(user_prompt), AssistantTurn(response_text[1]) >>

C14_ZeroWindow ==
  (pc \in {"try", "awaiting", "record"} /\ MAX_HISTORY_PARTS = 0) =>
     context_for_api = << >>

\* C15: every turn completes with bounded attempts. A run that took an
\* accepted input and is over has issued between 1 and MAX_RETRIES remote
\* calls and has appended an Assistant turn after its User turn.
C15_TurnCompletes ==
  RunOver =>
     /\ Len(requests) >= 1
     /\ Len(requests) <= MAX_RETRIES
     /\ Len(chat_history) = Len(pre_history) + 2
     /\ chat_history[Len(pre_history) + 1] = UserTurn(user_prompt)
     /\ Last(chat_history).role = "model"

\* Every entry of a sequence of outcomes is RateLimited.
AllRateLimited(seq) == \A i \in DOMAIN seq : seq[i] = "RateLimited"

\* C16: recovery after rate limiting. After i < MAX_RETRIES rate-limited
\* attempts the run has slept i times and goes on to attempt i (it is not
\* over); and when attempt i then returns a text T, the run has made i + 1
\* calls and i sleeps, makes no further call, and records T as the
\* Assistant turn.
C16_RecoveryAfterRateLimit ==
  /\ (InOrAfterRun /\ outcomes # << >> /\ AllRateLimited(outcomes)
        /\ Len(outcomes) < MAX_RETRIES) =>
        /\ Len(sleeps) = Len(outcomes)
        /\ ~RunOver
  /\ (EndedInSuccess
        /\ AllRateLimited(SubSeq(outcomes, 1, Len(outcomes) - 1))) =>
        /\ Len(requests) = Len(outcomes)
        /\ Len(sleeps) = Len(outcomes) - 1
        /\ Last(chat_history) = AssistantTurn(response_text[1])

\* The last Min(N, k) turns of a transcript of N turns.
LastTurns(history, k) ==
  LET N == Len(history)
      M == Min(N, k)
  IN  [i \in 1 .. M |-> history[N - M + i]]

\* Every remote call of the run carried the last min(N, K) turns of the
\* transcript as it is now, ending with the User turn of this run.
WindowCurrent ==
  \A i \in DOMAIN requests :
     /\ requests[i].contents = LastTurns(chat_history, MAX_HISTORY_PARTS)
     /\ requests[i].contents # << >>
     /\ Last(requests[i].contents) = UserTurn(user_prompt)

C18_StrictAlternation ==
  pc = "idle" =>
     /\ Len(chat_history) % 2 = 0
     /\ \A i \in DOMAIN chat_history :
          chat_history[i].role = IF i % 2 = 1 THEN "user" ELSE "model"

\* C19: the auto-log toggle does not affect the conversation. A run that is
\* over with the toggle off has written no log; and the session run with the
\* toggle the other way round, given the same submissions, resets and remote
\* outcomes, has the same transcript, the same session identifier and the
\* same sequence of remote calls.
C19_ToggleNoEffect ==
  /\ (RunOver /\ ~auto_record_csv) => csv_writes = << >>
  /\ twin.chat_history = chat_history
  /\ twin.session_id = session_id
  /\ twin.requests = requests

\* C19 witness: with the toggle off, a run recorded a reply and wrote no log,
\* in a session that had logged an earlier run with the toggle on.
C19_Witness ==
  /\ RunOver
  /\ ~auto_record_csv
  /\ ended = "rerun"
  /\ csv_writes = << >>
  /\ Len(pre_history) >= 2
  /\ Last(chat_history).role = "model"
  /\ Len(requests) = 1
  /\ twin.chat_history = chat_history

====
